---- MODULE Spec2Model ----
(***************************************************************************)
(* The runtime loop of lambda/src/lib.rs: Config::from_env, the two entry  *)
(* points run and run_simulated, the lazy poll stream incoming() and the   *)
(* poll -> invoke -> report cycle of run_inner.                            *)
(***************************************************************************)
EXTENDS Integers, Sequences, FiniteSets, TLC

\* ------------------------------------------------------------------ bounds
\* Poll-next requests one run may issue in unbounded mode.
MaxPolls == 2
\* Writes to the process environment during one run.
MaxEnvChanges == 1
\* Largest number occurring in an event or a handler response.
MaxNum == 5

\* ------------------------------------------------------- Option and Result
None == <<>>
Some(v) == <<v>>
IsSome(o) == o # <<>>
Unwrap(o) == o[1]

Ok(v) == [ok |-> TRUE, val |-> v]
Err(k) == [ok |-> FALSE, val |-> k]

\* ------------------------------------------------------------------- text
\* A text is a sequence of chunks; the chunks QUOTE and BACKSLASH are the
\* characters that the JSON and Debug encodings escape.
QUOTE == "\""
BACKSLASH == "\\"

boom == <<"boom">>
quoted_boom == <<"say ", QUOTE, "boom", QUOTE>>

\* ------------------------------------------------------------ environment
EnvVars ==
    {"AWS_LAMBDA_RUNTIME_API", "AWS_LAMBDA_FUNCTION_NAME",
     "AWS_LAMBDA_FUNCTION_MEMORY_SIZE", "AWS_LAMBDA_FUNCTION_VERSION",
     "AWS_LAMBDA_LOG_STREAM_NAME", "AWS_LAMBDA_LOG_GROUP_NAME"}

DEFAULT_LOG_GROUP == <<"/aws/lambda/Functions">>
DEFAULT_LOG_STREAM == <<"$LATEST">>

I32Max == 2147483647
I32Min == (-I32Max) - 1

DigitChars == <<"0", "1", "2", "3", "4", "5", "6", "7", "8", "9">>
IsDigit(c) == \E d \in 1..10 : DigitChars[d] = c
DigitVal(c) == (CHOOSE d \in 1..10 : DigitChars[d] = c) - 1

\* str::parse::<i32>: optional sign, at least one digit, checked arithmetic.
RECURSIVE parse_digits(_, _, _)
parse_digits(s, acc, sign) ==
    IF s = <<>> THEN Ok(acc)
    ELSE IF ~IsDigit(Head(s)) THEN Err("InvalidDigit")
    ELSE LET d == DigitVal(Head(s)) IN
         IF sign = 1 /\ acc > (I32Max - d) \div 10 THEN Err("PosOverflow")
         ELSE IF sign = -1 /\ acc < (I32Min + d + 9) \div 10 THEN Err("NegOverflow")
         ELSE parse_digits(Tail(s), acc * 10 + sign * d, sign)

parse_i32(s) ==
    IF s = <<>> THEN Err("Empty")
    ELSE IF Head(s) \in {"+", "-"}
         THEN IF Len(s) = 1 THEN Err("InvalidDigit")
              ELSE parse_digits(Tail(s), 0, IF Head(s) = "-" THEN -1 ELSE 1)
         ELSE parse_digits(s, 0, 1)

\* Config::from_env with a memory size that is absent or no i32 defaulted
\* to 0 instead of failing the load.
Config_from_env_default_memory(e) ==
    IF ~IsSome(e["AWS_LAMBDA_RUNTIME_API"]) THEN Err("VarError")
    ELSE IF ~IsSome(e["AWS_LAMBDA_FUNCTION_NAME"]) THEN Err("VarError")
    ELSE IF ~IsSome(e["AWS_LAMBDA_FUNCTION_VERSION"]) THEN Err("VarError")
    ELSE Ok([endpoint |-> Unwrap(e["AWS_LAMBDA_RUNTIME_API"]),
             function_name |-> Unwrap(e["AWS_LAMBDA_FUNCTION_NAME"]),
             memory |-> IF IsSome(e["AWS_LAMBDA_FUNCTION_MEMORY_SIZE"])
                           /\ parse_i32(Unwrap(e["AWS_LAMBDA_FUNCTION_MEMORY_SIZE"])).ok
                        THEN parse_i32(Unwrap(e["AWS_LAMBDA_FUNCTION_MEMORY_SIZE"])).val
                        ELSE 0,
             version |-> Unwrap(e["AWS_LAMBDA_FUNCTION_VERSION"]),
             log_stream |-> IF IsSome(e["AWS_LAMBDA_LOG_STREAM_NAME"])
                            THEN Unwrap(e["AWS_LAMBDA_LOG_STREAM_NAME"])
                            ELSE DEFAULT_LOG_STREAM,
             log_group |-> IF IsSome(e["AWS_LAMBDA_LOG_GROUP_NAME"])
                           THEN Unwrap(e["AWS_LAMBDA_LOG_GROUP_NAME"])
                           ELSE DEFAULT_LOG_GROUP])

\* Config::from_env: the four required entries are read in field order and the
\* first absent one (or a memory size that is no i32) fails the whole load.
Config_from_env(e) ==
    IF ~IsSome(e["AWS_LAMBDA_RUNTIME_API"]) THEN Err("VarError")
    ELSE IF ~IsSome(e["AWS_LAMBDA_FUNCTION_NAME"]) THEN Err("VarError")
    ELSE IF ~IsSome(e["AWS_LAMBDA_FUNCTION_MEMORY_SIZE"]) THEN Err("VarError")
    ELSE IF ~parse_i32(Unwrap(e["AWS_LAMBDA_FUNCTION_MEMORY_SIZE"])).ok
         THEN Err("ParseIntError")
    ELSE IF ~IsSome(e["AWS_LAMBDA_FUNCTION_VERSION"]) THEN Err("VarError")
    ELSE Ok([endpoint |-> Unwrap(e["AWS_LAMBDA_RUNTIME_API"]),
             function_name |-> Unwrap(e["AWS_LAMBDA_FUNCTION_NAME"]),
             memory |-> parse_i32(Unwrap(e["AWS_LAMBDA_FUNCTION_MEMORY_SIZE"])).val,
             version |-> Unwrap(e["AWS_LAMBDA_FUNCTION_VERSION"]),
             log_stream |-> IF IsSome(e["AWS_LAMBDA_LOG_STREAM_NAME"])
                            THEN Unwrap(e["AWS_LAMBDA_LOG_STREAM_NAME"])
                            ELSE DEFAULT_LOG_STREAM,
             log_group |-> IF IsSome(e["AWS_LAMBDA_LOG_GROUP_NAME"])
                           THEN Unwrap(e["AWS_LAMBDA_LOG_GROUP_NAME"])
                           ELSE DEFAULT_LOG_GROUP])

\* ------------------------------------------------------------------- JSON
\* serde_json values as the event type A and the response type B carry them.
JNull == [t |-> "null", n |-> 0, s |-> <<>>, m |-> <<>>]
JNum(n) == [t |-> "num", n |-> n, s |-> <<>>, m |-> <<>>]
JStr(s) == [t |-> "str", n |-> 0, s |-> s, m |-> <<>>]
JObj(m) == [t |-> "obj", n |-> 0, s |-> <<>>, m |-> m]
\* A response that is a map keyed by a tuple: serde_json refuses such keys.
JTupleKeyMap == [t |-> "tuple_key_map", n |-> 0, s |-> <<>>, m |-> <<>>]

RECURSIVE escape(_)
escape(s) ==
    IF s = <<>> THEN <<>>
    ELSE (IF Head(s) \in {QUOTE, BACKSLASH} THEN <<BACKSLASH, Head(s)>> ELSE <<Head(s)>>)
         \o escape(Tail(s))

\* serde_json::to_vec.
RECURSIVE to_vec(_)
RECURSIVE members_to_vec(_)
members_to_vec(m) ==
    IF m = <<>> THEN Ok(<<>>)
    ELSE LET v == to_vec(Head(m)[2])
             r == members_to_vec(Tail(m)) IN
         IF ~v.ok THEN v
         ELSE IF ~r.ok THEN r
         ELSE Ok(<<QUOTE>> \o escape(Head(m)[1]) \o <<QUOTE, ":">> \o v.val
                 \o (IF Tail(m) = <<>> THEN <<>> ELSE <<",">>) \o r.val)

to_vec(v) ==
    CASE v.t = "null" -> Ok(<<"null">>)
      [] v.t = "num" -> Ok(<<ToString(v.n)>>)
      [] v.t = "str" -> Ok(<<QUOTE>> \o escape(v.s) \o <<QUOTE>>)
      [] v.t = "obj" -> LET r == members_to_vec(v.m) IN
                        IF r.ok THEN Ok(<<"{">> \o r.val \o <<"}">>) ELSE r
      [] OTHER -> Err("key must be a string")

\* serde_json's deserializer: one value is read from the front of the input,
\* rest is what follows it.
POk(v, rest) == [ok |-> TRUE, val |-> v, rest |-> rest]
PErr(k) == [ok |-> FALSE, val |-> k, rest |-> <<>>]

IsNumTok(c) == \E n \in 0..MaxNum : ToString(n) = c
NumVal(c) == CHOOSE n \in 0..MaxNum : ToString(n) = c

RECURSIVE parse_string(_, _)
parse_string(toks, acc) ==
    IF toks = <<>> THEN PErr("EofWhileParsingString")
    ELSE IF Head(toks) = QUOTE THEN POk(acc, Tail(toks))
    ELSE IF Head(toks) = BACKSLASH
         THEN IF Len(toks) < 2 THEN PErr("EofWhileParsingString")
              ELSE IF toks[2] \in {QUOTE, BACKSLASH}
                   THEN parse_string(Tail(Tail(toks)), Append(acc, toks[2]))
                   ELSE PErr("InvalidEscape")
    ELSE parse_string(Tail(toks), Append(acc, Head(toks)))

RECURSIVE parse_value(_)
RECURSIVE parse_members(_, _)
parse_members(toks, acc) ==
    IF toks = <<>> THEN PErr("EofWhileParsingObject")
    ELSE IF Head(toks) # QUOTE THEN PErr("KeyMustBeAString")
    ELSE LET k == parse_string(Tail(toks), <<>>) IN
         IF ~k.ok THEN k
         ELSE IF k.rest = <<>> THEN PErr("EofWhileParsingObject")
         ELSE IF Head(k.rest) # ":" THEN PErr("ExpectedColon")
         ELSE LET v == parse_value(Tail(k.rest)) IN
              IF ~v.ok THEN v
              ELSE IF v.rest = <<>> THEN PErr("EofWhileParsingObject")
              ELSE IF Head(v.rest) = "}"
                   THEN POk(JObj(Append(acc, <<k.val, v.val>>)), Tail(v.rest))
              ELSE IF Head(v.rest) = ","
                   THEN parse_members(Tail(v.rest), Append(acc, <<k.val, v.val>>))
              ELSE PErr("ExpectedObjectCommaOrEnd")

parse_value(toks) ==
    IF toks = <<>> THEN PErr("EofWhileParsingValue")
    ELSE IF Head(toks) = "null" THEN POk(JNull, Tail(toks))
    ELSE IF IsNumTok(Head(toks)) THEN POk(JNum(NumVal(Head(toks))), Tail(toks))
    ELSE IF Head(toks) = QUOTE
         THEN LET r == parse_string(Tail(toks), <<>>) IN
              IF r.ok THEN POk(JStr(r.val), r.rest) ELSE r
    ELSE IF Head(toks) = "{"
         THEN IF Len(toks) >= 2 /\ toks[2] = "}" THEN POk(JObj(<<>>), Tail(Tail(toks)))
              ELSE parse_members(Tail(toks), <<>>)
    ELSE PErr("ExpectedSomeValue")

\* serde_json::from_slice: one value and nothing after it.
from_slice(toks) ==
    LET r == parse_value(toks) IN
    IF ~r.ok THEN Err(r.val)
    ELSE IF r.rest # <<>> THEN Err("TrailingCharacters")
    ELSE Ok(r.val)

\* serde_path_to_error::deserialize on a Deserializer::from_slice: the value is
\* read from the front of the body and the deserializer is then dropped.
deserialize(toks) ==
    LET r == parse_value(toks) IN
    IF r.ok THEN Ok(r.val) ELSE Err(r.val)

\* ------------------------------------------------------- handler outcomes
\* Error values a handler may return: a String, and a tuple struct
\* CustomError(String) with a derived Debug and a Display that writes its
\* message.
StringError(s) == [ty |-> "String", msg |-> s]
CustomError(s) == [ty |-> "CustomError", msg |-> s]

\* format!("{}", e)
fmt_display(e) == e.msg

\* format!("{:?}", e): a str is quoted and escaped, a derived Debug writes the
\* struct's name around the Debug of its field.
str_debug(s) == <<QUOTE>> \o escape(s) \o <<QUOTE>>
fmt_debug(e) ==
    IF e.ty = "String" THEN str_debug(e.msg)
    ELSE <<e.ty, "(">> \o str_debug(e.msg) \o <<")">>

\* std::any::type_name::<T>() of the error's static type.
type_name_of_val(e) ==
    IF e.ty = "String" THEN <<"alloc::string::String">>
    ELSE <<"handler::", e.ty>>

\* ---------------------------------------------------------------- headers
\* Context::try_from(HeaderMap): request id (non-empty), deadline
\* (milliseconds) and invoked function ARN are required, the trace id is
\* optional.
AllDigits(s) == s # <<>> /\ \A i \in 1..Len(s) : IsDigit(s[i])

Config_default ==
    [endpoint |-> <<>>, function_name |-> <<>>, memory |-> 0, version |-> <<>>,
     log_stream |-> <<>>, log_group |-> <<>>]

Context_try_from(h) ==
    IF ~IsSome(h.request_id) THEN Err("MissingRequestId")
    ELSE IF Unwrap(h.request_id) = <<>> THEN Err("MalformedRequestId")
    ELSE IF ~IsSome(h.deadline) THEN Err("MissingDeadline")
    ELSE IF ~AllDigits(Unwrap(h.deadline)) THEN Err("MalformedDeadline")
    ELSE IF ~IsSome(h.arn) THEN Err("MissingArn")
    ELSE Ok([request_id |-> Unwrap(h.request_id),
             deadline |-> Unwrap(h.deadline),
             invoked_function_arn |-> Unwrap(h.arn),
             xray_trace_id |-> h.trace_id,
             env_config |-> Config_default])

\* --------------------------------------------------------------- requests
\* http::Uri parsing: a non-empty text without a space.
uri_valid(t) == t # <<>> /\ \A i \in 1..Len(t) : t[i] # " "

\* The three request descriptors; kind stands for the path the request is
\* addressed to (next, <request_id>/response, <request_id>/error).
Request(kind, rid, body) == [kind |-> kind, request_id |-> rid, body |-> body]

NextEventRequest_into_req == Ok(Request("next", <<>>, <<>>))

EventCompletionRequest_into_req(rid, body) ==
    IF ~uri_valid(<<"/runtime/invocation/">> \o rid \o <<"/response">>)
    THEN Err("InvalidUri")
    ELSE LET b == to_vec(body) IN
         IF ~b.ok THEN Err("Serialize") ELSE Ok(Request("response", rid, b.val))

Diagnostic_value(d) ==
    JObj(<< <<<<"errorMessage">>, JStr(d.error_message)>>,
            <<<<"errorType">>, JStr(d.error_type)>> >>)

EventErrorRequest_into_req(rid, d) ==
    IF ~uri_valid(<<"/runtime/invocation/">> \o rid \o <<"/error">>)
    THEN Err("InvalidUri")
    ELSE LET b == to_vec(Diagnostic_value(d)) IN
         IF ~b.ok THEN Err("Serialize") ELSE Ok(Request("error", rid, b.val))

\* report_req addressing every report to the first request id it was given
\* instead of the current event's.
report_req_stale_id(rid, out) ==
    IF out.ok
    THEN EventCompletionRequest_into_req(<<"id1">>, out.val)
    ELSE EventErrorRequest_into_req(<<"id1">>,
             [error_message |-> fmt_debug(out.val),
              error_type |-> type_name_of_val(out.val)])

\* report_req sending the handler's response to the error path.
report_req_ok_as_error(rid, out) ==
    IF out.ok
    THEN LET r == EventCompletionRequest_into_req(rid, out.val) IN
         IF r.ok THEN Ok(Request("error", rid, r.val.body)) ELSE r
    ELSE EventErrorRequest_into_req(rid,
             [error_message |-> fmt_debug(out.val),
              error_type |-> type_name_of_val(out.val)])

\* run_inner, lines 228-238: the report request built from the outcome of the
\* handler's future.
report_req(rid, out) ==
    IF out.ok
    THEN EventCompletionRequest_into_req(rid, out.val)
    ELSE EventErrorRequest_into_req(rid,
             [error_message |-> fmt_debug(out.val),
              error_type |-> type_name_of_val(out.val)])

\* decode falling back to a default Context (empty request id) when the
\* headers do not make one.
decode_default_context(resp, e) ==
    LET ctx == Context_try_from(resp.headers)
        cfg == Config_from_env(e)
        dflt == [request_id |-> <<>>, deadline |-> <<"0">>,
                 invoked_function_arn |-> <<>>, xray_trace_id |-> None,
                 env_config |-> Config_default] IN
    IF ~cfg.ok THEN cfg
    ELSE IF ~resp.body.ok THEN Err("BodyRead")
    ELSE LET ev == deserialize(resp.body.val) IN
         IF ~ev.ok THEN Err("Deserialize")
         ELSE Ok([ctx |-> [(IF ctx.ok THEN ctx.val ELSE dflt) EXCEPT !.env_config = cfg.val],
                  event |-> ev.val])

\* decode falling back to a default event when the body does not deserialize.
decode_lenient(resp, e) ==
    LET ctx == Context_try_from(resp.headers)
        cfg == Config_from_env(e) IN
    IF ~ctx.ok THEN ctx
    ELSE IF ~cfg.ok THEN cfg
    ELSE IF ~resp.body.ok THEN Err("BodyRead")
    ELSE LET ev == deserialize(resp.body.val) IN
         Ok([ctx |-> [ctx.val EXCEPT !.env_config = cfg.val],
             event |-> IF ev.ok THEN ev.val ELSE JNull])

\* run_inner, lines 218-223: a poll response becomes the Context and the
\* event handed to the handler.
decode(resp, e) ==
    LET ctx == Context_try_from(resp.headers)
        cfg == Config_from_env(e) IN
    IF ~ctx.ok THEN ctx
    ELSE IF ~cfg.ok THEN cfg
    ELSE IF ~resp.body.ok THEN Err("BodyRead")
    ELSE LET ev == deserialize(resp.body.val) IN
         IF ~ev.ok THEN Err("Deserialize")
         ELSE Ok([ctx |-> [ctx.val EXCEPT !.env_config = cfg.val], event |-> ev.val])

\* ----------------------------------------------------------------- inputs
EnvValues(v) ==
    CASE v = "AWS_LAMBDA_RUNTIME_API" -> {<<"127.0.0.1:9001">>, <<"not", " ", "a", " ", "uri">>}
      [] v = "AWS_LAMBDA_FUNCTION_NAME" -> {<<"fn">>}
      [] v = "AWS_LAMBDA_FUNCTION_MEMORY_SIZE" -> {<<"1", "2", "8">>, <<"a", "b", "c">>}
      [] v = "AWS_LAMBDA_FUNCTION_VERSION" -> {<<"7">>}
      [] v = "AWS_LAMBDA_LOG_STREAM_NAME" -> {<<"stream">>}
      [] v = "AWS_LAMBDA_LOG_GROUP_NAME" -> {<<"group">>}

OptionOf(S) == {None} \cup {Some(x) : x \in S}

Envs ==
    [AWS_LAMBDA_RUNTIME_API : OptionOf(EnvValues("AWS_LAMBDA_RUNTIME_API")),
     AWS_LAMBDA_FUNCTION_NAME : OptionOf(EnvValues("AWS_LAMBDA_FUNCTION_NAME")),
     AWS_LAMBDA_FUNCTION_MEMORY_SIZE : OptionOf(EnvValues("AWS_LAMBDA_FUNCTION_MEMORY_SIZE")),
     AWS_LAMBDA_FUNCTION_VERSION : OptionOf(EnvValues("AWS_LAMBDA_FUNCTION_VERSION")),
     AWS_LAMBDA_LOG_STREAM_NAME : OptionOf(EnvValues("AWS_LAMBDA_LOG_STREAM_NAME")),
     AWS_LAMBDA_LOG_GROUP_NAME : OptionOf(EnvValues("AWS_LAMBDA_LOG_GROUP_NAME"))]

\* The writes to the environment a run may see: a required entry removed, the
\* memory size made malformed, the log group renamed.
EnvWrites ==
    {<<"AWS_LAMBDA_FUNCTION_NAME", None>>,
     <<"AWS_LAMBDA_FUNCTION_MEMORY_SIZE", Some(<<"a", "b", "c">>)>>,
     <<"AWS_LAMBDA_LOG_GROUP_NAME", Some(<<"other">>)>>}

Urls == {<<"http://localhost:9001">>, <<"not", " ", "a", " ", "uri">>}

n5 == JObj(<< <<<<"n">>, JNum(MaxNum)>> >>)

RequestIds == {<<"id1">>, <<"id2">>, <<"bad", " ", "id">>, <<>>}

Headers ==
    [request_id : OptionOf(RequestIds),
     deadline : {None, Some(<<"1", "0", "0">>), Some(<<"s", "o", "o", "n">>)},
     arn : {None, Some(<<"arn:aws:lambda:fn">>)},
     trace_id : {None}]

Bodies == {Ok(to_vec(n5).val), Ok(<<"{">>), Err("Incomplete")}

Responses == [headers : Headers, body : Bodies]

HandlerResults ==
    {Ok(n5), Ok(JStr(quoted_boom)), Ok(JTupleKeyMap),
     Err(StringError(boom)), Err(CustomError(boom))}

\* ------------------------------------------------------------------ state
VARIABLES
    mode,        \* the entry point of this run: "run" or "run_simulated"
    pc,          \* position of the run: start, next, polling, invoking,
                 \* reporting, done, panicked
    ret,         \* what the entry point returned: None until it returns
    env,         \* the process environment
    envChanges,  \* writes to env so far
    config,      \* run's local config: None until Config::from_env succeeded
    remaining,   \* Take's counter: None when the stream is not truncated
    calls,       \* every client.call so far: request, event index, result
    events,      \* every response a poll has returned
    handled,     \* every handler.call so far: event, ctx, result of the future
    request_id,  \* run_inner's local request_id
    expired      \* the deadline of the invocation being handled has passed

vars == <<mode, pc, ret, env, envChanges, config, remaining, calls, events,
          handled, request_id, expired>>

\* take(1) in run_simulated
TakeCount == 1

Init ==
    /\ mode \in {"run", "run_simulated"}
    /\ pc = "start"
    /\ ret = None
    /\ env \in Envs
    /\ envChanges = 0
    /\ config = None
    /\ remaining = None
    /\ calls = <<>>
    /\ events = <<>>
    /\ handled = <<>>
    /\ request_id = <<>>
    /\ expired = FALSE

Polls == {i \in 1..Len(calls) : calls[i].req.kind = "next"}
Reports == {i \in 1..Len(calls) : calls[i].req.kind # "next"}

SetLast(seq, f, v) == [seq EXCEPT ![Len(seq)] = [@ EXCEPT ![f] = v]]

Return(r) ==
    /\ ret' = Some(r)
    /\ pc' = "done"

\* run entering the loop without a Config when loading it failed.
run_without_config ==
    /\ mode = "run"
    /\ pc = "start"
    /\ LET cfg == Config_from_env(env) IN
       IF ~cfg.ok
       THEN pc' = "next" /\ UNCHANGED <<ret, config, remaining>>
       ELSE IF ~uri_valid(cfg.val.endpoint)
            THEN pc' = "panicked" /\ UNCHANGED <<ret, config, remaining>>
            ELSE /\ config' = Some(cfg.val)
                 /\ remaining' = None
                 /\ pc' = "next"
                 /\ UNCHANGED ret
    /\ UNCHANGED <<expired, mode, env, envChanges, calls, events, handled, request_id>>

\* run with its poll stream truncated as run_simulated truncates it.
run_truncated ==
    /\ mode = "run"
    /\ pc = "start"
    /\ LET cfg == Config_from_env(env) IN
       IF ~cfg.ok
       THEN Return(cfg) /\ UNCHANGED <<config, remaining>>
       ELSE IF ~uri_valid(cfg.val.endpoint)
            THEN pc' = "panicked" /\ UNCHANGED <<ret, config, remaining>>
            ELSE /\ config' = Some(cfg.val)
                 /\ remaining' = Some(TakeCount)
                 /\ pc' = "next"
                 /\ UNCHANGED ret
    /\ UNCHANGED <<expired, mode, env, envChanges, calls, events, handled, request_id>>

\* run, lines 165-170: the config is loaded and the client built before the
\* loop is entered.
run ==
    /\ mode = "run"
    /\ pc = "start"
    /\ LET cfg == Config_from_env(env) IN
       IF ~cfg.ok
       THEN Return(cfg) /\ UNCHANGED <<config, remaining>>
       ELSE IF ~uri_valid(cfg.val.endpoint)
            THEN pc' = "panicked" /\ UNCHANGED <<ret, config, remaining>>
            ELSE /\ config' = Some(cfg.val)
                 /\ remaining' = None
                 /\ pc' = "next"
                 /\ UNCHANGED ret
    /\ UNCHANGED <<expired, mode, env, envChanges, calls, events, handled, request_id>>

\* run_simulated without the take(1).
run_simulated_untruncated ==
    /\ mode = "run_simulated"
    /\ pc = "start"
    /\ \E url \in Urls :
         IF ~uri_valid(url)
         THEN pc' = "panicked" /\ UNCHANGED remaining
         ELSE pc' = "next" /\ remaining' = None
    /\ UNCHANGED <<expired, mode, ret, env, envChanges, config, calls, events, handled,
                   request_id>>

\* run_simulated, lines 184-187: the client is built from the url argument
\* and the stream truncated.
run_simulated ==
    /\ mode = "run_simulated"
    /\ pc = "start"
    /\ \E url \in Urls :
         IF ~uri_valid(url)
         THEN pc' = "panicked" /\ UNCHANGED remaining
         ELSE pc' = "next" /\ remaining' = Some(TakeCount)
    /\ UNCHANGED <<expired, mode, ret, env, envChanges, config, calls, events, handled,
                   request_id>>

\* incoming.next() at line 216: Take answers None once its counter is zero,
\* otherwise the stream body runs to its client.call (lines 196-197).
incoming_next ==
    /\ pc = "next"
    /\ IF IsSome(remaining) /\ Unwrap(remaining) = 0
       THEN Return(Ok("unit")) /\ UNCHANGED calls
       ELSE /\ Cardinality(Polls) < MaxPolls
            /\ calls' = Append(calls, [req |-> NextEventRequest_into_req.val,
                                       iter |-> Len(events) + 1,
                                       result |-> "pending"])
            /\ pc' = "polling"
            /\ UNCHANGED ret
    /\ UNCHANGED <<expired, mode, env, envChanges, config, remaining, events, handled,
                   request_id>>

\* A failed poll retried instead of returned.
poll_err_retry ==
    /\ calls' = SetLast(calls, "result", "err")
    /\ pc' = "next"
    /\ UNCHANGED <<ret, events, handled, request_id>>

\* Line 217 on a poll that failed: the error is returned.
poll_err ==
    /\ calls' = SetLast(calls, "result", "err")
    /\ Return(Err("Transport"))
    /\ UNCHANGED <<events, handled, request_id>>

\* poll_ok with the handler's future spawned instead of awaited: the loop
\* goes round without waiting for it.
poll_ok_spawned ==
    \E resp \in Responses :
        /\ calls' = SetLast(calls, "result", "ok")
        /\ events' = Append(events, resp)
        /\ LET d == decode(resp, env) IN
           IF ~d.ok
           THEN Return(d) /\ UNCHANGED <<handled, request_id>>
           ELSE /\ request_id' = d.val.ctx.request_id
                /\ handled' = Append(handled, [event |-> d.val.event,
                                               ctx |-> d.val.ctx,
                                               iter |-> Len(events) + 1,
                                               result |-> None])
                /\ pc' = "next"
                /\ UNCHANGED ret

\* poll_ok with the Context built once, for the first event, and handed to
\* every later handler call.
poll_ok_reuse_ctx ==
    \E resp \in Responses :
        /\ calls' = SetLast(calls, "result", "ok")
        /\ events' = Append(events, resp)
        /\ LET d == decode(resp, env)
               ctx == IF handled = <<>> THEN d.val.ctx ELSE handled[1].ctx IN
           IF ~d.ok
           THEN Return(d) /\ UNCHANGED <<handled, request_id>>
           ELSE /\ request_id' = ctx.request_id
                /\ handled' = Append(handled, [event |-> d.val.event,
                                               ctx |-> ctx,
                                               iter |-> Len(events) + 1,
                                               result |-> None])
                /\ pc' = "invoking"
                /\ UNCHANGED ret

\* Lines 217-226 on a poll that answered: the response is decoded and the
\* handler called, or the decoding error returned.
poll_ok ==
    \E resp \in Responses :
        /\ calls' = SetLast(calls, "result", "ok")
        /\ events' = Append(events, resp)
        /\ LET d == decode(resp, env) IN
           IF ~d.ok
           THEN Return(d) /\ UNCHANGED <<handled, request_id>>
           ELSE /\ request_id' = d.val.ctx.request_id
                /\ handled' = Append(handled, [event |-> d.val.event,
                                               ctx |-> d.val.ctx,
                                               iter |-> Len(events) + 1,
                                               result |-> None])
                /\ pc' = "invoking"
                /\ UNCHANGED ret

\* The poll's client.call has answered: lines 197-198 yield the result to
\* Take, which counts it, and to the loop at line 216.
poll_returns ==
    /\ pc = "polling"
    /\ remaining' = IF IsSome(remaining) THEN Some(Unwrap(remaining) - 1) ELSE None
    /\ (poll_err \/ poll_ok)
    /\ UNCHANGED <<expired, mode, env, envChanges, config>>

\* handler_resolves with the handler's error propagated (f.await?) instead
\* of reported.
handler_resolves_fatal ==
    /\ pc = "invoking"
    /\ \E out \in HandlerResults :
         /\ handled' = SetLast(handled, "result", Some(out))
         /\ LET req == report_req(request_id, out) IN
            IF ~out.ok
            THEN Return(Err("Handler")) /\ UNCHANGED calls
            ELSE IF ~req.ok
            THEN Return(req) /\ UNCHANGED calls
            ELSE /\ calls' = Append(calls, [req |-> req.val,
                                            iter |-> Len(events),
                                            result |-> "pending"])
                 /\ pc' = "reporting"
                 /\ UNCHANGED ret
    /\ expired' = FALSE
    /\ UNCHANGED <<mode, env, envChanges, config, remaining, events, request_id>>

\* handler_resolves with a report that does not encode dropped: the loop
\* goes round to the next poll.
handler_resolves_skip_unencodable ==
    /\ pc = "invoking"
    /\ \E out \in HandlerResults :
         /\ handled' = SetLast(handled, "result", Some(out))
         /\ LET req == report_req(request_id, out) IN
            IF ~req.ok
            THEN pc' = "next" /\ UNCHANGED <<ret, calls>>
            ELSE /\ calls' = Append(calls, [req |-> req.val,
                                            iter |-> Len(events),
                                            result |-> "pending"])
                 /\ pc' = "reporting"
                 /\ UNCHANGED ret
    /\ expired' = FALSE
    /\ UNCHANGED <<mode, env, envChanges, config, remaining, events, request_id>>

\* The handler's future has resolved: lines 228-239 build the report and
\* hand it to client.call.
handler_resolves ==
    /\ pc = "invoking"
    /\ \E out \in HandlerResults :
         /\ handled' = SetLast(handled, "result", Some(out))
         /\ LET req == report_req(request_id, out) IN
            IF ~req.ok
            THEN Return(req) /\ UNCHANGED calls
            ELSE /\ calls' = Append(calls, [req |-> req.val,
                                            iter |-> Len(events),
                                            result |-> "pending"])
                 /\ pc' = "reporting"
                 /\ UNCHANGED ret
    /\ expired' = FALSE
    /\ UNCHANGED <<mode, env, envChanges, config, remaining, events, request_id>>

\* A failed report ignored: the loop goes round as after a delivered one.
report_err_ignored ==
    /\ calls' = SetLast(calls, "result", "err")
    /\ pc' = "next"
    /\ UNCHANGED ret

\* A failed report sent again.
report_err_resend ==
    /\ calls' = Append(SetLast(calls, "result", "err"),
                       [calls[Len(calls)] EXCEPT !.result = "pending"])
    /\ pc' = "reporting"
    /\ UNCHANGED ret

\* Line 239 on a report that failed: the error is returned.
report_err ==
    /\ calls' = SetLast(calls, "result", "err")
    /\ Return(Err("Transport"))

\* Line 239 on a report that was delivered: the loop goes round.
report_ok ==
    /\ calls' = SetLast(calls, "result", "ok")
    /\ pc' = "next"
    /\ UNCHANGED ret

\* The report's client.call has answered (line 239).
report_returns ==
    /\ pc = "reporting"
    /\ (report_ok \/ report_err)
    /\ UNCHANGED <<expired, mode, env, envChanges, config, remaining, events, handled,
                   request_id>>

\* The deadline passing turned into a timeout: the loop reports an error
\* for the event while the handler's future is still unresolved.
deadline_passes_times_out ==
    /\ pc = "invoking"
    /\ ~expired
    /\ expired' = TRUE
    /\ calls' = Append(calls, [req |-> Request("error", request_id, <<>>),
                               iter |-> Len(events),
                               result |-> "pending"])
    /\ pc' = "reporting"
    /\ UNCHANGED <<mode, ret, env, envChanges, config, remaining, events,
                   handled, request_id>>

\* The deadline of the Context passes while f.await (line 228) is pending:
\* nothing in the loop reads the clock, so only the time changes.
deadline_passes ==
    /\ pc = "invoking"
    /\ ~expired
    /\ expired' = TRUE
    /\ UNCHANGED <<mode, pc, ret, env, envChanges, config, remaining, calls,
                   events, handled, request_id>>

\* Something in the process (the handler included) writes or removes an
\* environment entry once the entry point is running; the environment before
\* that is Init's choice.
env_change ==
    /\ pc \notin {"start", "done", "panicked"}
    /\ envChanges < MaxEnvChanges
    /\ \E w \in EnvWrites :
         /\ w[2] # env[w[1]]
         /\ env' = [env EXCEPT ![w[1]] = w[2]]
    /\ envChanges' = envChanges + 1
    /\ UNCHANGED <<expired, mode, pc, ret, config, remaining, calls, events, handled,
                   request_id>>

Next ==
    \/ run
    \/ run_simulated
    \/ incoming_next
    \/ poll_returns
    \/ handler_resolves
    \/ report_returns
    \/ deadline_passes
    \/ env_change

Spec == Init /\ [][Next]_vars

\* ------------------------------------------- Config::from_env on its own
\* Texts the memory size entry may hold: i32 numerals with and without a
\* sign, the ends of the i32 range and the numbers just outside it, and
\* texts that are no numeral.
MemoryTexts ==
    {<<"1", "2", "8">>, <<"+", "5">>, <<"-", "1">>, <<"0", "0", "7">>,
     <<"2", "1", "4", "7", "4", "8", "3", "6", "4", "7">>,
     <<"2", "1", "4", "7", "4", "8", "3", "6", "4", "8">>,
     <<"-", "2", "1", "4", "7", "4", "8", "3", "6", "4", "8">>,
     <<"-", "2", "1", "4", "7", "4", "8", "3", "6", "4", "9">>,
     <<"a", "b", "c">>, <<>>, <<"-">>, <<"1", "2", "a">>, <<"1", ".", "5">>,
     <<" ", "7">>}

EnvsWide ==
    [AWS_LAMBDA_RUNTIME_API : OptionOf({<<"127.0.0.1:9001">>}),
     AWS_LAMBDA_FUNCTION_NAME : OptionOf({<<"fn">>}),
     AWS_LAMBDA_FUNCTION_MEMORY_SIZE : OptionOf(MemoryTexts),
     AWS_LAMBDA_FUNCTION_VERSION : OptionOf({<<"7">>}),
     AWS_LAMBDA_LOG_STREAM_NAME : OptionOf({<<"stream">>}),
     AWS_LAMBDA_LOG_GROUP_NAME : OptionOf({<<"group">>})]

\* run started under any of these environments; its first step is the load.
InitConfig ==
    /\ mode = "run"
    /\ pc = "start"
    /\ ret = None
    /\ env \in EnvsWide
    /\ envChanges = 0
    /\ config = None
    /\ remaining = None
    /\ calls = <<>>
    /\ events = <<>>
    /\ handled = <<>>
    /\ request_id = <<>>
    /\ expired = FALSE

NextConfig == run

SpecConfig == InitConfig /\ [][NextConfig]_vars

\* ----------------------------------------------------------------- claims
ReportsFor(i) == {j \in Reports : calls[j].iter = i}
HandledFor(i) == {h \in 1..Len(handled) : handled[h].iter = i}
ReturnedOk == ret = Some(Ok("unit"))
ReturnedErr == pc = "done" /\ ret # None /\ ~Unwrap(ret).ok

\* C1 as claimed: when the run has ended, every event a poll fetched has
\* exactly one report, and it carries the request-id of that event.
C1_ExactlyOneReportPerFetchedEvent ==
    pc = "done" =>
        \A i \in 1..Len(events) :
            /\ Cardinality(ReportsFor(i)) = 1
            /\ \A j \in ReportsFor(i) :
                   events[i].headers.request_id = Some(calls[j].req.request_id)

\* C1 amended: every fetched event has at most one report, every report is
\* for a fetched event and carries that event's request-id; an event has
\* exactly one report once the loop has gone on past it (to the next poll or
\* to its Ok return); an event the run ended on with a decoding or encoding
\* error has none.
C1_AtMostOneReportPerEvent ==
    /\ \A j \in Reports :
           /\ calls[j].iter \in 1..Len(events)
           /\ events[calls[j].iter].headers.request_id = Some(calls[j].req.request_id)
    /\ \A i \in 1..Len(events) :
           /\ Cardinality(ReportsFor(i)) <= 1
           /\ (i < Len(events) \/ pc = "next" \/ ReturnedOk)
                  => Cardinality(ReportsFor(i)) = 1
           /\ (i = Len(events) /\ ReturnedErr /\ Unwrap(ret).val # "Transport")
                  => ReportsFor(i) = {}

C1_Witness ==
    /\ Len(events) = 2
    /\ events[1].headers.request_id # events[2].headers.request_id
    /\ \A i \in 1..2 : \E j \in ReportsFor(i) : calls[j].result = "ok"

\* C2: at most one invocation is open: when a poll is issued, every event
\* fetched before it has a report that was sent before that poll and has
\* been acknowledged, and no other call is in flight.
C2_OneOpenInvocation ==
    /\ \A j \in Polls : \A i \in 1..Len(events) :
           i < calls[j].iter =>
               \E k \in ReportsFor(i) : k < j /\ calls[k].result = "ok"
    /\ \A j \in 1..Len(calls) : calls[j].result = "pending" => j = Len(calls)

C2_Witness ==
    /\ Cardinality(Polls) = 2
    /\ pc = "polling"
    /\ \E k \in ReportsFor(1) : calls[k].result = "ok"

\* C3 as claimed: whenever the handler's future has resolved to Err, an error
\* report for that event has been sent.
C3_HandlerErrAlwaysReported ==
    \A h \in 1..Len(handled) :
        (handled[h].result # None /\ ~Unwrap(handled[h].result).ok) =>
            \E j \in ReportsFor(handled[h].iter) : calls[j].req.kind = "error"

\* C3 amended: when the handler's future has resolved to Err, the loop has
\* sent an error report for that event or, the report failing to encode, has
\* returned the encoding error; a delivered error report is followed by the
\* next poll or the Ok return; the handler's error is never what the run
\* returns.
C3_HandlerErrorNonFatal ==
    /\ ret # Some(Err("Handler"))
    /\ \A h \in 1..Len(handled) :
        (handled[h].result # None /\ ~Unwrap(handled[h].result).ok) =>
            /\ \A j \in ReportsFor(handled[h].iter) :
                   /\ calls[j].req.kind = "error"
                   /\ (calls[j].result = "ok" /\ j = Len(calls))
                          => (pc = "next" \/ (pc = "done" /\ ReturnedOk))
            /\ \/ ReportsFor(handled[h].iter) # {}
               \/ /\ h = Len(handled)
                  /\ pc = "done"
                  /\ ret \in {Some(Err("InvalidUri")), Some(Err("Serialize"))}

C3_Witness ==
    /\ Cardinality(Polls) = 2
    /\ handled # <<>>
    /\ handled[1].result = Some(Err(CustomError(boom)))
    /\ \E j \in ReportsFor(1) : calls[j].req.kind = "error" /\ calls[j].result = "ok"

\* C4: when the handler returned Ok(v), the report sent for that event is a
\* success report whose body deserializes to v.
C4_OkReportRoundTrips ==
    \A h \in 1..Len(handled) :
        (handled[h].result # None /\ Unwrap(handled[h].result).ok) =>
            \A j \in ReportsFor(handled[h].iter) :
                /\ calls[j].req.kind = "response"
                /\ from_slice(calls[j].req.body) = Ok(Unwrap(handled[h].result).val)

C4_Witness ==
    \E h \in 1..Len(handled) :
        /\ handled[h].result = Some(Ok(JStr(quoted_boom)))
        /\ ReportsFor(handled[h].iter) # {}

\* C5: when the handler returned Err(e), the report sent for that event is
\* an error report whose errorMessage is the error's human-readable
\* rendering (its Display) and whose errorType is its classification tag.
C5_ErrReportCarriesRendering ==
    \A h \in 1..Len(handled) :
        (handled[h].result # None /\ ~Unwrap(handled[h].result).ok) =>
            \A j \in ReportsFor(handled[h].iter) :
                /\ calls[j].req.kind = "error"
                /\ from_slice(calls[j].req.body) =
                       Ok(Diagnostic_value(
                              [error_message |-> fmt_display(Unwrap(handled[h].result).val),
                               error_type |-> type_name_of_val(Unwrap(handled[h].result).val)]))

\* C6: a poll that failed in the transport ends the run with that error: it
\* is the last call made, no event was fetched by it and the handler was not
\* invoked for it.
C6_PollFailureFatal ==
    \A j \in Polls :
        calls[j].result = "err" =>
            /\ pc = "done"
            /\ ret = Some(Err("Transport"))
            /\ j = Len(calls)
            /\ Len(events) = calls[j].iter - 1
            /\ HandledFor(calls[j].iter) = {}

C6_Witness ==
    \E j \in Polls : j > 1 /\ calls[j].result = "err"

HeaderOrBodyError(resp) ==
    \/ ~Context_try_from(resp.headers).ok
    \/ ~resp.body.ok
    \/ ~deserialize(resp.body.val).ok

\* C7: a fetched event with a missing or malformed required header, or with
\* a body that cannot be read as the handler's input, ends the run with an
\* error: the event is the last one fetched, the handler is not invoked for
\* it and no report is sent for it.
C7_DecodeErrorFatal ==
    \A i \in 1..Len(events) :
        HeaderOrBodyError(events[i]) =>
            /\ ReturnedErr
            /\ ~Context_try_from(events[i].headers).ok
                   => ret = Some(Context_try_from(events[i].headers))
            /\ Unwrap(ret).val # "Transport"
            /\ i = Len(events)
            /\ HandledFor(i) = {}
            /\ ReportsFor(i) = {}
            /\ calls[Len(calls)].req.kind = "next"

C7_Witness ==
    /\ Len(events) = 2
    /\ Context_try_from(events[2].headers).ok
    /\ events[2].body.ok
    /\ ~deserialize(events[2].body.val).ok
    /\ ret = Some(Err("Deserialize"))

\* C8: a report that failed in the transport ends the run with that error:
\* it is the last call made (not sent again, no further poll); a poll that
\* is not the first one directly follows a delivered report.
C8_ReportFailureFatal ==
    /\ \A j \in Reports :
           calls[j].result = "err" =>
               /\ pc = "done"
               /\ ret = Some(Err("Transport"))
               /\ j = Len(calls)
    /\ \A j \in Polls :
           j > 1 => (j - 1 \in Reports /\ calls[j - 1].result = "ok")

C8_Witness ==
    \E j \in Reports : calls[j].result = "err" /\ calls[j].iter = 2

\* C9: run_simulated issues one poll in the whole run: never a second one,
\* and when it has returned Ok its one event has been reported and that
\* report is the last call made.
C9_SimulatedOnePoll ==
    mode = "run_simulated" =>
        /\ Cardinality(Polls) <= 1
        /\ pc = "done" => Cardinality(Polls) = 1
        /\ ReturnedOk =>
               /\ Len(events) = 1
               /\ Len(calls) = 2
               /\ calls[2].req.kind # "next"
               /\ calls[2].result = "ok"

C9_Witness ==
    /\ mode = "run_simulated"
    /\ ReturnedOk
    /\ Cardinality(Polls) = 1

\* C10 as claimed: under either entry point a poll is only issued once the
\* entry point has loaded the Config.
C10_NoPollBeforeConfig ==
    calls # <<>> => IsSome(config)

\* C10 amended: under run a Config error ends the run at startup, before any
\* poll, and a poll is only issued once the Config is loaded; run_simulated
\* loads no Config at startup, and the handler is only invoked for an event
\* once line 221 has loaded a Config after that event's poll.
C10_ConfigBeforeLoopInRun ==
    /\ mode = "run" =>
           /\ calls # <<>> => IsSome(config)
           /\ pc \notin {"start", "panicked"} /\ ~IsSome(config) =>
                  /\ pc = "done"
                  /\ ret = Some(Config_from_env(env))
                  /\ ~Config_from_env(env).ok
                  /\ calls = <<>>
                  /\ events = <<>>
    /\ mode = "run_simulated" =>
           /\ ~IsSome(config)
           /\ \A h \in 1..Len(handled) :
                  /\ handled[h].ctx.env_config # Config_default
                  /\ uri_valid(handled[h].ctx.env_config.function_name)

C10_Witness ==
    /\ mode = "run"
    /\ pc = "done"
    /\ ret = Some(Err("ParseIntError"))
    /\ calls = <<>>

\* C11: the Config is read from the environment at startup only: under run
\* the env_config of every invocation's Context is the Config loaded at
\* startup, and once that Config is loaded the run never ends with a Config
\* error.
C11_ConfigLoadedOnce ==
    (mode = "run" /\ IsSome(config)) =>
        /\ \A h \in 1..Len(handled) : handled[h].ctx.env_config = Unwrap(config)
        /\ ReturnedErr => Unwrap(ret).val \notin {"VarError", "ParseIntError"}

Unresolved == {h \in 1..Len(handled) : handled[h].result = None}

\* C12: the handler is invoked one call at a time: at most one handler
\* future is unresolved, and it is the one of the latest call.
C12_OneHandlerCallAtATime ==
    /\ Cardinality(Unresolved) <= 1
    /\ \A h \in Unresolved : h = Len(handled)

C12_Witness ==
    /\ Len(handled) = 2
    /\ handled[1].result # None
    /\ Unresolved = {2}

\* C13: while the handler's future is unresolved the loop is in Invoking and
\* does nothing else, whether or not the deadline has passed: it has not
\* returned, no transport call is in flight, the last call made is the poll
\* that fetched the event, and no report exists for it.
C13_NoTimeoutWhileInvoking ==
    /\ \A h \in Unresolved :
           /\ pc = "invoking"
           /\ ret = None
           /\ \A j \in 1..Len(calls) : calls[j].result # "pending"
           /\ Len(calls) \in Polls
           /\ calls[Len(calls)].iter = handled[h].iter
           /\ ReportsFor(handled[h].iter) = {}
    /\ expired => (pc = "invoking" /\ Unresolved = {Len(handled)})

C13_Witness ==
    /\ expired
    /\ pc = "invoking"
    /\ Len(handled) = 2

\* C14: every report request carries a request id that was present in the
\* poll response and is not empty; a fetched event whose request-id header
\* is absent ends the run with the Context error, whatever its other headers
\* and its body are, before the handler is invoked and before any report
\* request is built for it.
C14_ReportNeedsRequestId ==
    /\ \A j \in Reports :
           /\ calls[j].req.request_id # <<>>
           /\ events[calls[j].iter].headers.request_id = Some(calls[j].req.request_id)
    /\ \A i \in 1..Len(events) :
           ~IsSome(events[i].headers.request_id) =>
               /\ pc = "done"
               /\ ret = Some(Err("MissingRequestId"))
               /\ i = Len(events)
               /\ HandledFor(i) = {}
               /\ ReportsFor(i) = {}
    /\ \A h \in 1..Len(handled) : handled[h].ctx.request_id # <<>>

C14_Witness ==
    /\ Len(events) = 2
    /\ ~IsSome(events[2].headers.request_id)
    /\ IsSome(events[2].headers.deadline)
    /\ AllDigits(Unwrap(events[2].headers.deadline))
    /\ IsSome(events[2].headers.arn)
    /\ events[2].body.ok
    /\ deserialize(events[2].body.val).ok
    /\ ret = Some(Err("MissingRequestId"))

\* The i32 each memory text stands for, None for a text that is none.
ExpectedMemory(t) ==
    CASE t = <<"1", "2", "8">> -> Some(128)
      [] t = <<"+", "5">> -> Some(5)
      [] t = <<"-", "1">> -> Some(-1)
      [] t = <<"0", "0", "7">> -> Some(7)
      [] t = <<"2", "1", "4", "7", "4", "8", "3", "6", "4", "7">> -> Some(I32Max)
      [] t = <<"-", "2", "1", "4", "7", "4", "8", "3", "6", "4", "8">> -> Some(I32Min)
      [] OTHER -> None

RequiredVars ==
    {"AWS_LAMBDA_RUNTIME_API", "AWS_LAMBDA_FUNCTION_NAME",
     "AWS_LAMBDA_FUNCTION_MEMORY_SIZE", "AWS_LAMBDA_FUNCTION_VERSION"}

\* C15: the outcome of loading the Config is fixed by the environment: the
\* load fails, leaving no Config, exactly when one of the four required
\* entries is absent or the memory size is no i32; otherwise the Config holds
\* the entries as they are, the memory size as its number, and $LATEST and
\* /aws/lambda/Functions in place of an absent log stream or log group.
C15_ConfigFromEnv ==
    pc # "start" =>
        IF \/ \E v \in RequiredVars : ~IsSome(env[v])
           \/ ~IsSome(ExpectedMemory(Unwrap(env["AWS_LAMBDA_FUNCTION_MEMORY_SIZE"])))
        THEN /\ pc = "done"
             /\ ~Unwrap(ret).ok
             /\ config = None
        ELSE /\ pc = "next"
             /\ ret = None
             /\ config = Some(
                  [endpoint |-> Unwrap(env["AWS_LAMBDA_RUNTIME_API"]),
                   function_name |-> Unwrap(env["AWS_LAMBDA_FUNCTION_NAME"]),
                   memory |-> Unwrap(ExpectedMemory(
                                  Unwrap(env["AWS_LAMBDA_FUNCTION_MEMORY_SIZE"]))),
                   version |-> Unwrap(env["AWS_LAMBDA_FUNCTION_VERSION"]),
                   log_stream |-> IF IsSome(env["AWS_LAMBDA_LOG_STREAM_NAME"])
                                  THEN Unwrap(env["AWS_LAMBDA_LOG_STREAM_NAME"])
                                  ELSE <<"$LATEST">>,
                   log_group |-> IF IsSome(env["AWS_LAMBDA_LOG_GROUP_NAME"])
                                 THEN Unwrap(env["AWS_LAMBDA_LOG_GROUP_NAME"])
                                 ELSE <<"/aws/lambda/Functions">>])

C15_Witness ==
    /\ pc = "next"
    /\ ~IsSome(env["AWS_LAMBDA_LOG_STREAM_NAME"])
    /\ ~IsSome(env["AWS_LAMBDA_LOG_GROUP_NAME"])
    /\ IsSome(config)
    /\ Unwrap(config).memory = I32Min
    /\ Unwrap(config).log_group = <<"/aws/lambda/Functions">>

\* ------------------------------------------------ the cycle when all goes well
\* What C16 assumes: no transport call has failed, every poll response is
\* well formed, and the report of every resolved handler future encodes.
AssumeGood ==
    /\ \A j \in 1..Len(calls) : calls[j].result # "err"
    /\ \A i \in 1..Len(events) : ~HeaderOrBodyError(events[i])
    /\ \A h \in 1..Len(handled) :
           /\ uri_valid(handled[h].ctx.request_id)
           /\ (handled[h].result # None /\ Unwrap(handled[h].result).ok)
                  => to_vec(Unwrap(handled[h].result).val).ok

LoopStep ==
    \/ run
    \/ run_simulated
    \/ incoming_next
    \/ poll_returns
    \/ handler_resolves
    \/ report_returns

NextGood == Next /\ AssumeGood'

\* The loop's steps are taken when they can be: client.call answers and the
\* handler's future resolves.
SpecProgress == Init /\ [][NextGood]_vars /\ WF_vars(LoopStep /\ AssumeGood')

\* C16: with every transport call succeeding, every poll response well
\* formed and every report encoding, a run does not end with a fetched
\* event left unreported.
C16_FetchedEventsReported ==
    pc = "done" =>
        \A i \in 1..Len(events) : \E j \in ReportsFor(i) : calls[j].result = "ok"

\* ------------------------------------------------------------ termination
\* The error the loop's code returns in a state where it has returned: the
\* failed config load before any call, the failed transport call, the
\* decoding error of the last event, or the encoding error of its report.
FatalCause ==
    IF calls = <<>> THEN Config_from_env(env)
    ELSE LET last == calls[Len(calls)] IN
         IF last.result = "err" THEN Err("Transport")
         ELSE IF HandledFor(Len(events)) = {} THEN decode(events[Len(events)], env)
         ELSE LET h == handled[Len(handled)] IN
              report_req(h.ctx.request_id, Unwrap(h.result))

\* C17: the loop returns only on an exhausted poll stream or a fatal error:
\* run never returns Ok, every return of run carries the error that ended
\* it, and Ok is returned only by the bounded run once its stream has
\* yielded its one item and then None.
C17_TerminatesOnlyOnExhaustionOrFatal ==
    /\ mode = "run" => ~ReturnedOk
    /\ (pc = "done" /\ ~ReturnedOk) =>
           /\ ReturnedErr
           /\ ret = Some(FatalCause)
           /\ calls # <<>> =>
                  \/ calls[Len(calls)].result = "err"
                  \/ /\ calls[Len(calls)].result = "ok"
                     /\ calls[Len(calls)].req.kind = "next"
    /\ ReturnedOk =>
           /\ pc = "done"
           /\ mode = "run_simulated"
           /\ remaining = Some(0)
           /\ Cardinality(Polls) = TakeCount
           /\ \A j \in 1..Len(calls) : calls[j].result = "ok"

C17_Witness ==
    /\ mode = "run"
    /\ ReturnedErr
    /\ Cardinality(Polls) = 2
    /\ \E j \in Reports : calls[j].result = "ok"
    /\ ret = Some(Err("Transport"))

\* ---------------------------------------------------------------- context
\* C18: the Context of the n-th handler call is built from the headers of
\* the n-th poll response, the event from its body; the handler is called at
\* most once per fetched event, only for one whose headers and body decoded,
\* and an event with no handler call is the last one, on which the loop
\* returned the decoding error.
C18_FreshContextPerInvocation ==
    /\ \A h \in 1..Len(handled) :
           LET resp == events[handled[h].iter]
               ctx == Context_try_from(resp.headers)
               ev == IF resp.body.ok THEN deserialize(resp.body.val)
                     ELSE Err("BodyRead") IN
           /\ handled[h].iter = h
           /\ ctx.ok
           /\ ev.ok
           /\ handled[h].ctx.request_id = Unwrap(resp.headers.request_id)
           /\ handled[h].ctx.deadline = Unwrap(resp.headers.deadline)
           /\ handled[h].ctx.invoked_function_arn = Unwrap(resp.headers.arn)
           /\ handled[h].ctx.xray_trace_id = resp.headers.trace_id
           /\ handled[h].event = ev.val
    /\ \A i \in 1..Len(events) :
           /\ Cardinality(HandledFor(i)) <= 1
           /\ HandledFor(i) = {} =>
                  /\ i = Len(events)
                  /\ ReturnedErr
                  /\ ret = Some(decode(events[i], env))
    /\ pc = "invoking" => request_id = handled[Len(handled)].ctx.request_id

C18_Witness ==
    /\ Len(handled) = 2
    /\ handled[1].ctx.request_id # handled[2].ctx.request_id
    /\ events[1].headers # events[2].headers
    /\ handled[2].result # None

\* ------------------------------------------------------- report encoding
\* C19: when the report of a resolved handler future does not encode (the
\* request id makes no URI, or the response does not serialize), the loop
\* has returned that error, no report was sent for the event, and the poll
\* that fetched it is the last call.
C19_EncodeFailureFatal ==
    \A h \in 1..Len(handled) :
        (/\ handled[h].result # None
         /\ ~report_req(handled[h].ctx.request_id, Unwrap(handled[h].result)).ok) =>
            /\ ReturnedErr
            /\ ret = Some(report_req(handled[h].ctx.request_id,
                                     Unwrap(handled[h].result)))
            /\ Unwrap(ret).val \in {"InvalidUri", "Serialize"}
            /\ h = Len(handled)
            /\ handled[h].iter = Len(events)
            /\ ReportsFor(handled[h].iter) = {}
            /\ calls[Len(calls)].req.kind = "next"
            /\ calls[Len(calls)].result = "ok"

C19_Witness ==
    /\ Len(handled) = 2
    /\ handled[2].result = Some(Ok(JTupleKeyMap))
    /\ uri_valid(handled[2].ctx.request_id)
    /\ ret = Some(Err("Serialize"))
    /\ Cardinality(Polls) = 2

====
